---- MODULE Spec2Model ----
(***************************************************************************)
(* text-summarizer.js: a command-line summarizer.  main() acquires a text  *)
(* (file argument or interactive lines), summarizeText() asks the remote   *)
(* chat-completion service when a client is configured and falls back to   *)
(* localSummarize() when the call throws, and main() prints a report.      *)
(*                                                                         *)
(* A JavaScript string is modelled as a sequence of one-character strings. *)
(***************************************************************************)
EXTENDS Integers, Sequences, FiniteSets

\* ------------------------------------------------------------------ bounds

\* Longest text handed directly to localSummarize (SpecLocal).
MaxLen == 8
\* Longest file content read by main (Spec), beside the named examples.
MaxFileLen == 4
\* Most characters typed (line breaks included) before the input closes.
MaxInputLen == 4
\* Largest token count the service reports.
MaxTokens == 1
\* Longest content of a completion.
MaxContentLen == 1

\* ------------------------------------------------------- character classes

\* The characters texts are built from: a letter, a blank, a terminator.
Alphabet == {"a", " ", "."}

\* [.!?] of the pattern on line 30.
IsTerminator(c) == c \in {".", "!", "?"}

\* \s of the pattern on line 30, and the characters String.prototype.trim strips.
IsSpace(c) == c \in {" ", "\t", "\n", "\r"}

\* ------------------------------------------------------------ string tools

Min(a, b) == IF a < b THEN a ELSE b

\* All sequences over S of length at most n.
RECURSIVE SeqsUpTo(_, _)
SeqsUpTo(S, n) ==
  IF n = 0 THEN {<< >>}
  ELSE LET shorter == SeqsUpTo(S, n - 1)
       IN  shorter \cup {Append(s, c) : s \in {t \in shorter : Len(t) = n - 1}, c \in S}

\* [^.!?]+ from index i: the first index >= i of s that holds a terminator
\* (Len(s) + 1 when the run reaches the end).  Greedy.
RECURSIVE NonTerminatorRunEnd(_, _)
NonTerminatorRunEnd(s, i) ==
  IF i > Len(s) \/ IsTerminator(s[i]) THEN i ELSE NonTerminatorRunEnd(s, i + 1)

\* [.!?]* from index i: the first index >= i of s that holds no terminator.
RECURSIVE TerminatorRunEnd(_, _)
TerminatorRunEnd(s, i) ==
  IF i > Len(s) \/ ~IsTerminator(s[i]) THEN i ELSE TerminatorRunEnd(s, i + 1)

\* \s* from index i: the first index >= i of s that holds no white space.
RECURSIVE SpaceRunEnd(_, _)
SpaceRunEnd(s, i) ==
  IF i > Len(s) \/ ~IsSpace(s[i]) THEN i ELSE SpaceRunEnd(s, i + 1)

\* String.prototype.trim: leading and trailing white space removed.
RECURSIVE TrimLeft(_)
TrimLeft(s) == IF s # << >> /\ IsSpace(Head(s)) THEN TrimLeft(Tail(s)) ELSE s

RECURSIVE TrimRight(_)
TrimRight(s) ==
  IF s # << >> /\ IsSpace(s[Len(s)]) THEN TrimRight(SubSeq(s, 1, Len(s) - 1)) ELSE s

Trim(s) == TrimRight(TrimLeft(s))

\* Array.prototype.join(sep).
RECURSIVE Join(_, _)
Join(parts, sep) ==
  IF parts = << >> THEN << >>
  ELSE IF Len(parts) = 1 THEN parts[1]
  ELSE parts[1] \o sep \o Join(Tail(parts), sep)

\* text.match(/[^.!?]+[.!?]*\s*/g) from index i on: the successive matches.  A
\* match needs one non-terminator to start; a terminator at i is skipped.  Each
\* part of the pattern is greedy and what follows it can match empty, so no
\* backtracking happens.
RECURSIVE MatchFrom(_, _)
MatchFrom(text, i) ==
  IF i > Len(text) THEN << >>
  ELSE IF IsTerminator(text[i]) THEN MatchFrom(text, i + 1)
  ELSE LET j == NonTerminatorRunEnd(text, i)
           k == TerminatorRunEnd(text, j)
           m == SpaceRunEnd(text, k)
       IN  <<SubSeq(text, i, m - 1)>> \o MatchFrom(text, m)

\* The matches of the whole text; << >> stands for match's null.
Match(text) == MatchFrom(text, 1)

\* Array.prototype.slice(0, n).
Slice(parts, n) == SubSeq(parts, 1, Min(n, Len(parts)))

\* ---------------------------------------------------------- localSummarize

ZeroUsage == [prompt_tokens |-> 0, completion_tokens |-> 0, total_tokens |-> 0]

\* const sentences = text.match(...) || [text]
Sentences(text) == IF Match(text) = << >> THEN <<text>> ELSE Match(text)

\* const selection = sentences.slice(0, 3).join(' ').trim()
Selection(text) == Trim(Join(Slice(Sentences(text), 3), <<" ">>))

\* A variant of localSummarize that forgets slice(0, 3).
localSummarizeAll(text) ==
  LET all == Trim(Join(Sentences(text), <<" ">>))
  IN  [summary |-> IF all # << >> THEN all ELSE Trim(text), usage |-> ZeroUsage]

localSummarize(text) ==
  [summary |-> IF Selection(text) # << >> THEN Selection(text) ELSE Trim(text),
   usage   |-> ZeroUsage]

\* ------------------------------------------------------------------ inputs

\* The text of end-to-end scenario 1: four sentences.
Scenario1 ==
  <<"H", "e", "l", "l", "o", " ", "w", "o", "r", "l", "d", ".", " ", "T", "h", "i",
    "s", " ", "i", "s", " ", "a", " ", "t", "e", "s", "t", ".", " ", "A", "n", "o",
    "t", "h", "e", "r", " ", "s", "e", "n", "t", "e", "n", "c", "e", ".", " ", "A",
    "n", "d", " ", "o", "n", "e", " ", "m", "o", "r", "e", ".">>

\* The text of end-to-end scenario 2: no terminator at all.
Scenario2 ==
  <<"j", "u", "s", "t", " ", "s", "o", "m", "e", " ", "w", "o", "r", "d", "s", " ",
    "w", "i", "t", "h", " ", "n", "o", " ", "p", "u", "n", "c", "t", "u", "a", "t",
    "i", "o", "n">>

\* A text using the other terminators and a line break.
Mixed ==
  <<"H", "i", "!", " ", "O", "k", "?", "\n", "Y", "e", "s", ".", " ", "N", "o", ".">>

Examples == {Scenario1, Scenario2, Mixed}

\* The texts localSummarize is applied to directly.
LocalTexts == SeqsUpTo(Alphabet, MaxLen) \cup Examples

\* The contents a readable file may have.
FileTexts == SeqsUpTo(Alphabet, MaxFileLen) \cup Examples

\* The lines the user may type (readline strips the line break).
Lines == SeqsUpTo(Alphabet, MaxInputLen - 1)

\* ------------------------------------------------------ the remote service

\* JavaScript's null/undefined, kept apart from every string: its one element
\* is no character.
Null == <<"null">>

\* The errors openai.chat.completions.create may reject with.
RemoteErrors == {"timeout", "auth", "rate_limit", "bad_json"}

\* The token counts the service may report.
Usages ==
  {[prompt_tokens |-> p, completion_tokens |-> c, total_tokens |-> p + c] :
     p \in 0..MaxTokens, c \in 0..MaxTokens}

\* The completions the call may resolve with: `choices` is the length of the
\* choices array, `content` is choices[0].message.content (a string or null),
\* `usage` is << >> when the service omits it.
Completions ==
  [choices : {1}, content : SeqsUpTo(Alphabet, MaxContentLen) \cup {Null},
   usage : {<< >>} \cup {<<u>> : u \in Usages}]
  \cup {[choices |-> 0, content |-> Null, usage |-> << >>]}

\* completion.choices[0].message throws a TypeError when choices is empty.
ReadingChoiceThrows(completion) == completion.choices = 0

\* Lines 22-25: what summarizeWithOpenAI returns for a completion it can read.
summarizeWithOpenAI(completion) ==
  [summary |-> completion.content,
   usage   |-> IF completion.usage # << >> THEN completion.usage[1] ELSE ZeroUsage]

\* A variant of RemoteBranch that forgets the test of the client.
RemoteBranchAlways(client) == TRUE

\* Whether summarizeText takes the remote branch: `if (openai)`.
RemoteBranch(client) == client

\* A variant of the catch block that answers with the whole trimmed text.
CatchFallbackWholeText(text) == [summary |-> Trim(text), usage |-> ZeroUsage]

\* The catch block of summarizeText.
CatchFallback(text) == localSummarize(text)

\* ------------------------------------------------------------ the report

\* str.split(/\s+/).length: one more than the number of white-space runs.
RECURSIVE SpaceRuns(_, _)
SpaceRuns(s, i) ==
  IF i > Len(s) THEN 0
  ELSE IF IsSpace(s[i]) THEN 1 + SpaceRuns(s, SpaceRunEnd(s, i))
  ELSE SpaceRuns(s, i + 1)

Words(s) == SpaceRuns(s, 1) + 1

\* ((1 - summaryLength / originalLength) * 100).toFixed(1), in tenths of a
\* percent: the exact quotient rounded to the nearest tenth, ties away from
\* zero, with the sign of the difference.  originalLength > 0.
Reduction(summaryLength, originalLength) ==
  LET diff == originalLength - summaryLength
      mag  == IF diff < 0 THEN -diff ELSE diff
      n    == (2 * 1000 * mag + originalLength) \div (2 * originalLength)
  IN  IF diff < 0 THEN -n ELSE n

\* Lines 92-118: the figures main prints.
Report(text, res) ==
  [originalLength |-> Len(text),
   originalWords  |-> Words(text),
   summary        |-> res.summary,
   summaryLength  |-> Len(res.summary),
   summaryWords   |-> Words(res.summary),
   reduction      |-> Reduction(Len(res.summary), Len(text)),
   usage          |-> res.usage]

\* ------------------------------------------------------------------- state

VARIABLES
  openai,        \* whether the client was built (OPENAI_API_KEY set)
  argv,          \* process.argv.slice(2): << >> or one file path
  pc,            \* where main stands
  userText,      \* main's userText
  remoteCalls,   \* calls of openai.chat.completions.create started
  outstanding,   \* calls started and not yet settled
  remoteOutcome, \* "none", "pending", "returned" or "threw" (summarizeWithOpenAI)
  remoteError,   \* what made summarizeWithOpenAI throw, "none" otherwise
  summarizeCalls,\* calls of summarizeText
  localCalls,    \* calls of localSummarize
  result,        \* << >>, or <<r>> with r what summarizeText returned
  out,           \* what was written to standard output, in order
  err,           \* what was written to standard error, in order
  report,        \* << >>, or <<r>> with r the figures printed
  exitStatus     \* -1 while running, then the process's exit status

vars ==
  <<openai, argv, pc, userText, remoteCalls, outstanding, remoteOutcome,
    remoteError, summarizeCalls, localCalls, result, out, err, report, exitStatus>>

\* Nothing has run yet.
Fresh ==
  /\ remoteCalls = 0
  /\ outstanding = 0
  /\ remoteOutcome = "none"
  /\ remoteError = "none"
  /\ summarizeCalls = 0
  /\ localCalls = 0
  /\ result = << >>
  /\ out = << >>
  /\ err = << >>
  /\ report = << >>
  /\ exitStatus = -1

Init ==
  /\ openai \in BOOLEAN
  /\ argv \in {<< >>, <<"path">>}
  /\ pc = "main"
  /\ userText = << >>
  /\ Fresh

\* process.exit(status), or the process ending once main has settled.
Exit(status) ==
  /\ exitStatus' = status
  /\ pc' = "exited"

\* main().catch: console.error(err); process.exit(1).
Uncaught(what) ==
  /\ err' = Append(err, what)
  /\ Exit(1)

\* ----------------------------------------------------- main: the file path

\* Lines 52-54: readFileSync returns the file's content.
ReadFile(content) ==
  /\ pc = "main"
  /\ argv # << >>
  /\ userText' = content
  /\ pc' = "check"
  /\ UNCHANGED <<openai, argv, remoteCalls, outstanding, remoteOutcome,
                 remoteError, summarizeCalls, localCalls, result, out, err, report,
                 exitStatus>>

\* Lines 55-58: readFileSync throws.
ReadFileFails ==
  /\ pc = "main"
  /\ argv # << >>
  /\ err' = Append(err, "Unable to read file")
  /\ Exit(1)
  /\ UNCHANGED <<openai, argv, userText, remoteCalls, outstanding,
                 remoteOutcome, remoteError, summarizeCalls, localCalls, result, out,
                 report>>

\* ---------------------------------------------- main: the interactive path

\* Lines 60-66: the banner.
OpenInteractive ==
  /\ pc = "main"
  /\ argv = << >>
  /\ out' = Append(out, "banner")
  /\ pc' = "lines"
  /\ UNCHANGED <<openai, argv, userText, remoteCalls, outstanding,
                 remoteOutcome, remoteError, summarizeCalls, localCalls, result, err,
                 report, exitStatus>>

\* Lines 69-71: one more line.
ReadLine(line) ==
  /\ pc = "lines"
  /\ Len(userText) + Len(line) + 1 <= MaxInputLen
  /\ userText' = userText \o line \o <<"\n">>
  /\ UNCHANGED <<openai, argv, pc, remoteCalls, outstanding, remoteOutcome,
                 remoteError, summarizeCalls, localCalls, result, out, err, report,
                 exitStatus>>

\* Lines 69-78: the input ends, or the loop throws ERR_USE_AFTER_CLOSE, which
\* is swallowed; then userText = userText.trim().
InputCloses(useAfterClose) ==
  /\ pc = "lines"
  /\ userText' = Trim(userText)
  /\ pc' = "check"
  /\ UNCHANGED <<openai, argv, remoteCalls, outstanding, remoteOutcome,
                 remoteError, summarizeCalls, localCalls, result, out, err, report,
                 exitStatus>>

\* Lines 72-75 and 122-125: any other error of the loop is thrown again.
InputFails ==
  /\ pc = "lines"
  /\ Uncaught("input error")
  /\ UNCHANGED <<openai, argv, userText, remoteCalls, outstanding,
                 remoteOutcome, remoteError, summarizeCalls, localCalls, result, out,
                 report>>

\* ------------------------------------------------------- main: lines 81-90

\* Lines 81-84: `if (!userText)`.
NoText ==
  /\ pc = "check"
  /\ userText = << >>
  /\ out' = Append(out, "No text provided")
  /\ Exit(0)
  /\ UNCHANGED <<openai, argv, userText, remoteCalls, outstanding,
                 remoteOutcome, remoteError, summarizeCalls, localCalls, result, err,
                 report>>

\* Lines 86-90: the PROCESSING banner, then summarizeText(userText) is called.
Processing ==
  /\ pc = "check"
  /\ userText # << >>
  /\ out' = Append(out, "PROCESSING")
  /\ summarizeCalls' = summarizeCalls + 1
  /\ pc' = "summarizeText"
  /\ UNCHANGED <<openai, argv, userText, remoteCalls, outstanding,
                 remoteOutcome, remoteError, localCalls, result, err, report,
                 exitStatus>>

\* ----------------------------------------------------------- summarizeText

\* Line 44: no client, localSummarize(text).
LocalOnly ==
  /\ pc = "summarizeText"
  /\ ~RemoteBranch(openai)
  /\ localCalls' = localCalls + 1
  /\ result' = <<localSummarize(userText)>>
  /\ pc' = "report"
  /\ UNCHANGED <<openai, argv, userText, remoteCalls, outstanding,
                 remoteOutcome, remoteError, summarizeCalls, out, err, report,
                 exitStatus>>

\* Lines 36-38 and 12: the request is sent and awaited.
RemoteCall ==
  /\ pc = "summarizeText"
  /\ RemoteBranch(openai)
  /\ remoteCalls' = remoteCalls + 1
  /\ outstanding' = outstanding + 1
  /\ remoteOutcome' = "pending"
  /\ pc' = "await"
  /\ UNCHANGED <<openai, argv, userText, remoteError, summarizeCalls,
                 localCalls, result, out, err, report, exitStatus>>

\* Lines 39-42: summarizeWithOpenAI threw; the catch block answers.
Fallback(why) ==
  /\ remoteOutcome' = "threw"
  /\ remoteError' = why
  /\ localCalls' = localCalls + 1
  /\ result' = <<CatchFallback(userText)>>

\* The request resolves with a completion: lines 22-25, or the TypeError of
\* reading choices[0].message, caught on line 39.
RemoteResolves(completion) ==
  /\ pc = "await"
  /\ outstanding' = outstanding - 1
  /\ IF ReadingChoiceThrows(completion)
       THEN Fallback("no choices")
       ELSE /\ remoteOutcome' = "returned"
            /\ result' = <<summarizeWithOpenAI(completion)>>
            /\ UNCHANGED <<remoteError, localCalls>>
  /\ pc' = "report"
  /\ UNCHANGED <<openai, argv, userText, remoteCalls, summarizeCalls, out,
                 err, report, exitStatus>>

\* A variant of RemoteRejects that tries the request again instead of falling
\* back.
RemoteRejectsRetry(error) ==
  /\ pc = "await"
  /\ outstanding' = outstanding - 1
  /\ remoteOutcome' = "threw"
  /\ remoteError' = error
  /\ pc' = "summarizeText"
  /\ UNCHANGED <<openai, argv, userText, remoteCalls, summarizeCalls, localCalls,
                 result, out, err, report, exitStatus>>

\* A variant of RemoteRejects without the try/catch: the error reaches
\* main().catch.
RemoteRejectsUncaught(error) ==
  /\ pc = "await"
  /\ outstanding' = outstanding - 1
  /\ remoteOutcome' = "threw"
  /\ remoteError' = error
  /\ Uncaught(error)
  /\ UNCHANGED <<openai, argv, userText, remoteCalls, summarizeCalls, localCalls,
                 result, out, report>>

\* The request rejects: caught on line 39.
RemoteRejects(error) ==
  /\ pc = "await"
  /\ outstanding' = outstanding - 1
  /\ Fallback(error)
  /\ pc' = "report"
  /\ UNCHANGED <<openai, argv, userText, remoteCalls, summarizeCalls, out,
                 err, report, exitStatus>>

\* ------------------------------------------------------ main: lines 92-125

\* Lines 92-119: the report, and the process ends with status 0; reading
\* summary.length of a null summary throws instead (lines 93, 122-125).
PrintReport ==
  /\ pc = "report"
  /\ IF result[1].summary = Null
       THEN /\ Uncaught("TypeError")
            /\ UNCHANGED <<out, report>>
       ELSE /\ report' = <<Report(userText, result[1])>>
            /\ out' = Append(out, "report")
            /\ Exit(0)
            /\ UNCHANGED err
  /\ UNCHANGED <<openai, argv, userText, remoteCalls, outstanding,
                 remoteOutcome, remoteError, summarizeCalls, localCalls, result>>

Next ==
  \/ \E content \in FileTexts : ReadFile(content)
  \/ ReadFileFails
  \/ OpenInteractive
  \/ \E line \in Lines : ReadLine(line)
  \/ \E useAfterClose \in BOOLEAN : InputCloses(useAfterClose)
  \/ InputFails
  \/ NoText
  \/ Processing
  \/ LocalOnly
  \/ RemoteCall
  \/ \E completion \in Completions : RemoteResolves(completion)
  \/ \E error \in RemoteErrors : RemoteRejects(error)
  \/ PrintReport

Spec == Init /\ [][Next]_vars

\* ------------------------------------------- localSummarize applied directly

InitLocal ==
  /\ openai = FALSE
  /\ argv = << >>
  /\ pc = "local"
  /\ userText \in LocalTexts
  /\ Fresh

ApplyLocal ==
  /\ pc = "local"
  /\ result' = <<localSummarize(userText)>>
  /\ localCalls' = localCalls + 1
  /\ pc' = "localDone"
  /\ UNCHANGED <<openai, argv, userText, remoteCalls, outstanding,
                 remoteOutcome, remoteError, summarizeCalls, out, err, report,
                 exitStatus>>

NextLocal == ApplyLocal

SpecLocal == InitLocal /\ [][NextLocal]_vars

\* ------------------------------------------------------------- properties

\* The number of terminators in a text.
RECURSIVE TerminatorCount(_)
TerminatorCount(s) ==
  IF s = << >> THEN 0
  ELSE (IF IsTerminator(Head(s)) THEN 1 ELSE 0) + TerminatorCount(Tail(s))

\* The index of the n-th terminator of s at or after i (0 when there is none).
RECURSIVE NthTerminator(_, _, _)
NthTerminator(s, i, n) ==
  IF i > Len(s) THEN 0
  ELSE IF IsTerminator(s[i])
         THEN (IF n = 1 THEN i ELSE NthTerminator(s, i + 1, n - 1))
         ELSE NthTerminator(s, i + 1, n)

\* A text of k >= 1 sentences, each ending in one terminator and separated from
\* the next by exactly one space.
PlainSentences(s) ==
  /\ s # << >>
  /\ IsTerminator(s[Len(s)])
  /\ ~IsTerminator(s[1]) /\ ~IsSpace(s[1])
  /\ \A i \in 1..(Len(s) - 1) :
       IsTerminator(s[i]) =>
         /\ s[i + 1] = " "
         /\ i + 2 <= Len(s)
         /\ ~IsTerminator(s[i + 2]) /\ ~IsSpace(s[i + 2])

\* The first min(3, k) sentences of such a text, as they stand in it.
FirstThree(s) ==
  SubSeq(s, 1, NthTerminator(s, 1, Min(3, TerminatorCount(s))))

\* The summary of scenario 1.
Scenario1Summary == SubSeq(Scenario1, 1, 46)

\* What the run has printed last.
LastOut == IF out = << >> THEN "" ELSE out[Len(out)]

\* C1: when the client is configured and summarizeWithOpenAI throws (the request
\* rejects, whatever the error, or the completion has no choices), summarizeText
\* returns what localSummarize returns for the same text, usage all zero.
FallbackEquivalence ==
  (openai /\ remoteOutcome = "threw") =>
    /\ result = <<localSummarize(userText)>>
    /\ result[1].usage = ZeroUsage

\* C1's case: a completion without choices, on a text whose local summary
\* differs from the trimmed text.
FallbackWitness ==
  /\ openai
  /\ remoteOutcome = "threw"
  /\ remoteError = "no choices"
  /\ result # << >>
  /\ result[1].summary # Trim(userText)

\* C2: whenever summarizeText has returned for a non-empty text, the summary is
\* a non-empty string.
NonEmptySummary ==
  (result # << >> /\ Len(userText) >= 1) =>
    /\ result[1].summary # Null
    /\ result[1].summary # << >>

\* C3: on a text of k >= 1 plainly separated sentences localSummarize returns
\* the first min(3, k) of them joined by exactly one space, usage all zero; on
\* scenario 1 it returns the scenario's summary.
FirstThreeSentences ==
  (pc = "localDone" /\ PlainSentences(userText)) =>
    /\ result[1].summary = FirstThree(userText)
    /\ result[1].usage = ZeroUsage
    /\ userText = Scenario1 => result[1].summary = Scenario1Summary

\* C4: on a text with fewer than 3 terminators localSummarize returns the
\* trimmed text verbatim.
FewTerminatorsVerbatim ==
  (pc = "localDone" /\ TerminatorCount(userText) < 3) =>
    result[1].summary = Trim(userText)

\* C5: without a client no request is ever started and every result is
\* localSummarize's.
NoRemoteWhenUnconfigured ==
  ~openai =>
    /\ remoteCalls = 0
    /\ outstanding = 0
    /\ remoteOutcome = "none"
    /\ result # << >> => (localCalls = 1 /\ result = <<localSummarize(userText)>>)

\* C5's case: a run without a client that printed its report.
NoRemoteWitness ==
  /\ ~openai
  /\ pc = "exited"
  /\ report # << >>
  /\ localCalls = 1

\* C6: summarizeText is only called with a text that is non-empty after
\* trimming; a run whose acquired text is empty after trimming ends with the
\* notice, status 0, no call of summarizeText and no report.
OnlyNonBlankSummarized ==
  /\ summarizeCalls > 0 => Trim(userText) # << >>
  /\ (pc = "exited" /\ err = << >> /\ Trim(userText) = << >>) =>
       /\ exitStatus = 0
       /\ LastOut = "No text provided"
       /\ summarizeCalls = 0
       /\ report = << >>

\* C7: a run ends with status 0 or 1; status 1 only after a file-read error or
\* an uncaught exception; when the remote call failed (summarizeWithOpenAI
\* threw) the run prints no error, prints the report of localSummarize's result
\* and ends with status 0.
ExitTaxonomy ==
  /\ exitStatus \in {-1, 0, 1}
  /\ (pc = "exited") <=> (exitStatus \in {0, 1})
  /\ exitStatus = 1 =>
       /\ err # << >>
       /\ err[Len(err)] \in {"Unable to read file", "input error", "TypeError"}
       /\ report = << >>
  /\ remoteOutcome = "threw" =>
       /\ err = << >>
       /\ exitStatus # 1
       /\ pc = "exited" =>
            /\ exitStatus = 0
            /\ report = <<Report(userText, localSummarize(userText))>>
            /\ LastOut = "report"

\* C7's case: the request timed out and the run ended.
ExitAfterRemoteFailure ==
  /\ pc = "exited"
  /\ remoteOutcome = "threw"
  /\ remoteError = "timeout"
  /\ exitStatus = 0
  /\ report # << >>

\* C8: the summary localSummarize returns holds at most 3 fragments, counted by
\* the pattern applied to the summary.
AtMostThreeFragments ==
  pc = "localDone" => Len(Match(result[1].summary)) <= 3

\* C8's case: a text of more than 3 fragments, cut down to 3.
MoreThanThreeFragments ==
  /\ pc = "localDone"
  /\ Len(Match(userText)) > 3
  /\ Len(Match(result[1].summary)) = 3

\* C9: with a client, summarizeText starts the request exactly once and before
\* any localSummarize; localSummarize runs only after summarizeWithOpenAI threw,
\* never after it returned; at most one request is outstanding and the report is
\* printed only after it settled.
OrchestrationOrder ==
  /\ remoteCalls <= 1
  /\ outstanding \in {0, 1}
  /\ (outstanding = 1) <=> (remoteOutcome = "pending")
  /\ (openai /\ pc = "summarizeText") => (remoteCalls = 0 /\ localCalls = 0)
  /\ (openai /\ summarizeCalls > 0 /\ pc # "summarizeText") => remoteCalls = 1
  /\ (openai /\ localCalls > 0) => (remoteOutcome = "threw" /\ localCalls = 1)
  /\ remoteOutcome \in {"pending", "returned"} => localCalls = 0
  /\ remoteOutcome = "pending" => (result = << >> /\ report = << >>)
  /\ (openai /\ report # << >>) => remoteOutcome \in {"returned", "threw"}

\* C9's case: the request failed, localSummarize ran once and the report was
\* printed.
OrchestrationWitness ==
  /\ openai
  /\ remoteCalls = 1
  /\ remoteOutcome = "threw"
  /\ localCalls = 1
  /\ report # << >>

\* C10: a report built from localSummarize's result never shows a summary longer
\* than the text, so the reduction is never negative, and it is 0.0 when the two
\* lengths are equal.
NonNegativeReduction ==
  (report # << >> /\ localCalls > 0) =>
    /\ report[1].summaryLength <= report[1].originalLength
    /\ report[1].reduction >= 0
    /\ report[1].summaryLength = report[1].originalLength => report[1].reduction = 0

====
